---- MODULE Spec2Model ----
(***************************************************************************)
(* Model of the truck pallet scheduler: the 2-column solver (sleper.py),   *)
(* the 4-column solver (kip.py) and the caller execute_packing (main.py).  *)
(*                                                                         *)
(* Item and column indices are 0-based as in the source; a Python list is  *)
(* a TLA+ sequence, so list[i] is written At(list, i).                     *)
(***************************************************************************)
EXTENDS Integers, Sequences, FiniteSets, TLC

VARIABLES
    pallets,               \* st.session_state.pallets read by execute_packing
    container_lengths,     \* the flat list of item lengths
    sleper_max_length,     \* the capacity argument of the 2-column solver
    columns,               \* the column list argument of the 4-column solver
    paired_containers,     \* result of pair_containers: list of index pairs
    remaining_containers,  \* result of pair_containers: list of single indices
    assignments,           \* list of (container index, column index)
    column_heights,        \* running load of every column
    result,                \* what find_optimal_assignment returned / raised
    area_ok,               \* what check_total_area returned, per configuration
    log,                   \* calls and messages of this run, in order
    pc                     \* position in the running function

vars == << pallets, container_lengths, sleper_max_length, columns,
           paired_containers, remaining_containers, assignments,
           column_heights, result, area_ok, log, pc >>

-----------------------------------------------------------------------------
(* Program constants *)

MAIN_LENGTH == 13600
MAIN_WIDTH == 2400
CONTAINER_WIDTH == 1200
MIN_LENGTH == 1500
MAX_LENGTH == 13060
MAX_CONTAINERS == 10

MAIN_CONTAINERS ==
    << [max_length |-> 7300, current_length |-> 0],
       [max_length |-> 7300, current_length |-> 0],
       [max_length |-> 8200, current_length |-> 0],
       [max_length |-> 8200, current_length |-> 0] >>

\* num_columns=2, the default argument of sleper.find_optimal_assignment
SLEPER_NUM_COLUMNS == 2

-----------------------------------------------------------------------------
(* Bounds of the model *)

MaxItems == 4       \* longest item list given to the solvers directly
MaxPallets == 3     \* longest pallet list given to execute_packing

\* item lengths and capacities given to the solvers directly (small units)
LengthValues == {2, 3, 4}
SleperCapValues == 2..9
KipCapValues == {2, 3, 5}
KipBaselines == { <<0, 0, 0, 0>>, <<0, 0, 0, 1>> }

\* pallet lengths (mm) and counts given to execute_packing: both sides of
\* every validation bound, and loads around the capacities 13600/7300/8200
PalletLengths == {1400, 1500, 7000, 13060, 13100}
PalletCounts == {0, 1, 2, 11}

-----------------------------------------------------------------------------
(* Python list helpers *)

At(list, i) == list[i + 1]

Range0(n) == [i \in 1..n |-> i - 1]          \* list(range(n))

RECURSIVE SumSeq(_)
SumSeq(s) == IF Len(s) = 0 THEN 0 ELSE Head(s) + SumSeq(Tail(s))

RECURSIVE MaxSeq(_)
MaxSeq(s) ==
    IF Len(s) = 1 THEN s[1]
    ELSE LET m == MaxSeq(Tail(s)) IN IF s[1] >= m THEN s[1] ELSE m

RECURSIVE Concat(_)
Concat(ss) == IF Len(ss) = 0 THEN << >> ELSE Head(ss) \o Concat(Tail(ss))

RECURSIVE Pow(_, _)
Pow(n, k) == IF k = 0 THEN 1 ELSE n * Pow(n, k - 1)

\* list[col] += x
AddAt(heights, col, x) ==
    [i \in 1..Len(heights) |-> IF i = col + 1 THEN heights[i] + x ELSE heights[i]]

\* itertools.product(range(n), repeat=k): all k-tuples over 0..n-1, the first
\* component varying slowest
product(n, k) ==
    [j \in 1..Pow(n, k) |->
        [p \in 1..k |-> ((j - 1) \div Pow(n, k - p)) % n]]

\* itertools.combinations(range(n), 2): (0,1), (0,2), ..., (n-2,n-1)
combinations2(n) ==
    Concat([a \in 1..n |-> [b \in 1..(n - a) |-> << a - 1, a - 1 + b >>]])

\* itertools.permutations(list): lexicographic in the positions of the list
RECURSIVE permutations(_)
permutations(s) ==
    IF Len(s) = 0 THEN << << >> >>
    ELSE Concat([i \in 1..Len(s) |->
            LET rest == permutations(SubSeq(s, 1, i - 1) \o SubSeq(s, i + 1, Len(s)))
            IN  [j \in 1..Len(rest) |-> << s[i] >> \o rest[j]]])

-----------------------------------------------------------------------------
(* check_total_area *)

\* Faulty variant of sleper_check_total_area: the width of the containers is
\* left out of their area, so the check passes far too often.
sleper_check_total_area_no_width(lengths, container_width, main_length, main_width) ==
    LET total_container_area == SumSeq(lengths)
        main_container_area == main_length * main_width
    IN  total_container_area <= main_container_area

sleper_check_total_area(lengths, container_width, main_length, main_width) ==
    LET total_container_area ==
            SumSeq([i \in 1..Len(lengths) |-> lengths[i] * container_width])
        main_container_area == main_length * main_width
    IN  total_container_area <= main_container_area

kip_check_total_area(lengths, container_width, main_containers) ==
    LET total_container_area ==
            SumSeq([i \in 1..Len(lengths) |-> lengths[i] * container_width])
        total_main_area ==
            SumSeq([i \in 1..Len(main_containers) |->
                        main_containers[i].max_length * container_width])
    IN  total_container_area <= total_main_area

-----------------------------------------------------------------------------
(* pair_containers (the same code in sleper.py and kip.py) *)

\* keys of length_to_indices in insertion order: each length at its first index
LengthKeys(lengths) ==
    LET first(i) == \A j \in 1..(i - 1) : lengths[j] # lengths[i]
        idx == SelectSeq([i \in 1..Len(lengths) |-> i], first)
    IN  [k \in 1..Len(idx) |-> lengths[idx[k]]]

\* length_to_indices[length]: the indices of that length, ascending
IndicesOf(lengths, length) ==
    LET has(i) == At(lengths, i) = length
    IN  SelectSeq(Range0(Len(lengths)), has)

\* while len(indices) >= 2: append((indices.pop(0), indices.pop(0)))
RECURSIVE PopPairs(_)
PopPairs(indices) ==
    IF Len(indices) >= 2
    THEN << << indices[1], indices[2] >> >> \o PopPairs(Tail(Tail(indices)))
    ELSE << >>

\* Faulty variant of PopRemaining: the first index of the length is taken as
\* the single, although the pairs have consumed it.
PopRemaining_first(indices) ==
    IF Len(indices) % 2 = 1 THEN << indices[1] >> ELSE << >>

\* if indices: append(indices.pop(0)), after the pairs were popped
PopRemaining(indices) ==
    IF Len(indices) % 2 = 1 THEN << indices[Len(indices)] >> ELSE << >>

pair_containers(lengths) ==
    LET keys == LengthKeys(lengths)
    IN  [paired |->
            Concat([k \in 1..Len(keys) |-> PopPairs(IndicesOf(lengths, keys[k]))]),
         remaining |->
            Concat([k \in 1..Len(keys) |-> PopRemaining(IndicesOf(lengths, keys[k]))])]

-----------------------------------------------------------------------------
(* What a solver hands back.  ok = FALSE stands for sleper's ValueError and  *)
(* for kip's (None, None, None).                                             *)

Success(asg, heights, max_height) ==
    [ok |-> TRUE, assignments |-> asg, column_heights |-> heights,
     optimal_max_height |-> max_height]

Failure ==
    [ok |-> FALSE, assignments |-> << >>, column_heights |-> << >>,
     optimal_max_height |-> 0]

\* optimal_max_height = float('inf'); optimal_assignment = None
NoOptimum == [found |-> FALSE, max_height |-> 0, assignment |-> << >>]

\* Faulty variant of Improve: the first valid candidate is kept, later ones
\* are never compared with it.
Improve_first_valid(best, current_max, candidate) ==
    IF ~best.found
    THEN [found |-> TRUE, max_height |-> current_max, assignment |-> candidate]
    ELSE best

\* Faulty variant of Improve: <= instead of <, so the last of several equally
\* good candidates wins.
Improve_last_wins(best, current_max, candidate) ==
    IF (~best.found) \/ current_max <= best.max_height
    THEN [found |-> TRUE, max_height |-> current_max, assignment |-> candidate]
    ELSE best

\* if current_max < optimal_max_height: keep the candidate
Improve(best, current_max, candidate) ==
    IF (~best.found) \/ current_max < best.max_height
    THEN [found |-> TRUE, max_height |-> current_max, assignment |-> candidate]
    ELSE best

-----------------------------------------------------------------------------
(* sleper.py: the 2-column solver *)

\* Faulty variant of assign_paired_containers: the first index of the pair is
\* recorded for both of its items.
RECURSIVE assign_paired_containers_same_index(_, _, _)
assign_paired_containers_same_index(paired, lengths, num_columns) ==
    IF Len(paired) = 0
    THEN [assignments |-> << >>, column_heights |-> [c \in 1..num_columns |-> 0]]
    ELSE LET before == assign_paired_containers_same_index(
                           SubSeq(paired, 1, Len(paired) - 1), lengths, num_columns)
             pair == paired[Len(paired)]
             col0 == 0 % num_columns
             col1 == 1 % num_columns
         IN  [assignments |->
                 before.assignments \o << << pair[1], col0 >>, << pair[1], col1 >> >>,
              column_heights |->
                 AddAt(AddAt(before.column_heights, col0, At(lengths, pair[1])),
                       col1, At(lengths, pair[1]))]

\* for pair in paired_containers: for i, idx in enumerate(pair): col = i % n
RECURSIVE assign_paired_containers(_, _, _)
assign_paired_containers(paired, lengths, num_columns) ==
    IF Len(paired) = 0
    THEN [assignments |-> << >>, column_heights |-> [c \in 1..num_columns |-> 0]]
    ELSE LET before == assign_paired_containers(
                           SubSeq(paired, 1, Len(paired) - 1), lengths, num_columns)
             pair == paired[Len(paired)]
             col0 == 0 % num_columns
             col1 == 1 % num_columns
         IN  [assignments |->
                 before.assignments \o << << pair[1], col0 >>, << pair[2], col1 >> >>,
              column_heights |->
                 AddAt(AddAt(before.column_heights, col0, At(lengths, pair[1])),
                       col1, At(lengths, pair[2]))]

\* the inner loop of assign_remaining_containers over zip(remaining, assignment),
\* from position k on: add the length, break when that column exceeds max_length
RECURSIVE sleper_try_assignment(_, _, _, _, _, _)
sleper_try_assignment(remaining, assignment, lengths, temp_heights, max_length, k) ==
    IF k > Len(remaining)
    THEN [valid |-> TRUE, temp_heights |-> temp_heights]
    ELSE LET col == assignment[k]
             added == AddAt(temp_heights, col, At(lengths, remaining[k]))
         IN  IF At(added, col) > max_length
             THEN [valid |-> FALSE, temp_heights |-> added]
             ELSE sleper_try_assignment(remaining, assignment, lengths, added,
                                        max_length, k + 1)

\* the loop over itertools.product, candidates lo..hi in order, carrying the
\* optimum found so far
RECURSIVE sleper_search(_, _, _, _, _, _, _, _)
sleper_search(candidates, lo, hi, best, remaining, lengths, heights, max_length) ==
    IF lo > hi THEN best
    ELSE IF lo = hi
    THEN LET try == sleper_try_assignment(remaining, candidates[lo], lengths,
                                          heights, max_length, 1)
         IN  IF try.valid
             THEN Improve(best, MaxSeq(try.temp_heights), candidates[lo])
             ELSE best
    ELSE LET mid == (lo + hi) \div 2
             first_half == sleper_search(candidates, lo, mid, best, remaining,
                                         lengths, heights, max_length)
         IN  IF first_half.found \in BOOLEAN   \* the first half is done first
             THEN sleper_search(candidates, mid + 1, hi, first_half, remaining,
                                lengths, heights, max_length)
             ELSE best

\* Faulty variant of ApplyAssignment: the chosen assignment is recorded but
\* the column heights are not updated.
ApplyAssignment_no_update(remaining, assignment, lengths, heights) ==
    [assignments |-> [k \in 1..Len(remaining) |-> << remaining[k], assignment[k] >>],
     column_heights |-> heights]

\* final_assignments and the updated heights for the chosen assignment
ApplyAssignment(remaining, assignment, lengths, heights) ==
    [assignments |-> [k \in 1..Len(remaining) |-> << remaining[k], assignment[k] >>],
     column_heights |->
        [c \in 1..Len(heights) |->
            heights[c]
            + SumSeq([k \in 1..Len(remaining) |->
                        IF assignment[k] = c - 1 THEN At(lengths, remaining[k]) ELSE 0])]]

assign_remaining_containers(remaining, lengths, heights, max_length, num_columns) ==
    IF Len(remaining) = 0
    THEN [ok |-> TRUE, assignments |-> << >>, column_heights |-> heights]
    ELSE LET candidates == product(num_columns, Len(remaining))
             best == sleper_search(candidates, 1, Len(candidates), NoOptimum,
                                   remaining, lengths, heights, max_length)
             applied == ApplyAssignment(remaining, best.assignment, lengths,
                                        heights)
         IN  IF best.found
             THEN [ok |-> TRUE, assignments |-> applied.assignments,
                   column_heights |-> applied.column_heights]
             ELSE [ok |-> FALSE, assignments |-> << >>,
                   column_heights |-> heights]

\* Faulty variant of LowestColumn: the highest index wins on ties.
LowestColumn_highest_on_ties(temp_heights) ==
    CHOOSE c \in 0..(Len(temp_heights) - 1) :
        /\ \A d \in 0..(Len(temp_heights) - 1) : At(temp_heights, c) <= At(temp_heights, d)
        /\ \A d \in (c + 1)..(Len(temp_heights) - 1) :
               At(temp_heights, d) > At(temp_heights, c)

\* min(range(num_columns), key=lambda c: temp_heights[c]): lowest index on ties
LowestColumn(temp_heights) ==
    CHOOSE c \in 0..(Len(temp_heights) - 1) :
        /\ \A d \in 0..(Len(temp_heights) - 1) : At(temp_heights, c) <= At(temp_heights, d)
        /\ \A d \in 0..(c - 1) : At(temp_heights, d) > At(temp_heights, c)

\* the inner loop of the fallback over one permutation, from position k on
RECURSIVE greedy_permutation(_, _, _, _, _, _)
greedy_permutation(perm, lengths, temp_heights, temp_assignments, max_length, k) ==
    IF k > Len(perm)
    THEN [valid |-> TRUE, temp_heights |-> temp_heights,
          temp_assignments |-> temp_assignments]
    ELSE LET idx == perm[k]
             col == LowestColumn(temp_heights)
             added == AddAt(temp_heights, col, At(lengths, idx))
         IN  IF At(added, col) > max_length
             THEN [valid |-> FALSE, temp_heights |-> added,
                   temp_assignments |-> temp_assignments]
             ELSE greedy_permutation(perm, lengths, added,
                      Append(temp_assignments, << idx, col >>), max_length, k + 1)

\* the loop over permutations(all_containers), candidates lo..hi in order
RECURSIVE permutation_search(_, _, _, _, _, _, _)
permutation_search(perms, lo, hi, best, lengths, max_length, num_columns) ==
    IF lo > hi THEN best
    ELSE IF lo = hi
    THEN LET try == greedy_permutation(perms[lo], lengths,
                        [c \in 1..num_columns |-> 0], << >>, max_length, 1)
         IN  IF try.valid
             THEN Improve(best, MaxSeq(try.temp_heights), try.temp_assignments)
             ELSE best
    ELSE LET mid == (lo + hi) \div 2
             first_half == permutation_search(perms, lo, mid, best, lengths,
                                              max_length, num_columns)
         IN  IF first_half.found \in BOOLEAN   \* the first half is done first
             THEN permutation_search(perms, mid + 1, hi, first_half, lengths,
                                     max_length, num_columns)
             ELSE best

\* Faulty variant of sleper_permutation_fallback: only the first permutation
\* (the items in index order) is tried.
sleper_permutation_fallback_first_only(lengths, max_length, num_columns) ==
    LET perms == permutations(Range0(Len(lengths)))
        best == permutation_search(perms, 1, 1, NoOptimum, lengths,
                                   max_length, num_columns)
        optimal_assignment == best.assignment
        heights ==
            [c \in 1..num_columns |->
                SumSeq([k \in 1..Len(optimal_assignment) |->
                    IF optimal_assignment[k][2] = c - 1
                    THEN At(lengths, optimal_assignment[k][1]) ELSE 0])]
    IN  IF best.found
        THEN Success(optimal_assignment, heights, best.max_height)
        ELSE Failure

\* the except branch of sleper.find_optimal_assignment
sleper_permutation_fallback(lengths, max_length, num_columns) ==
    LET perms == permutations(Range0(Len(lengths)))
        best == permutation_search(perms, 1, Len(perms), NoOptimum, lengths,
                                   max_length, num_columns)
        optimal_assignment == best.assignment
        heights ==
            [c \in 1..num_columns |->
                SumSeq([k \in 1..Len(optimal_assignment) |->
                    IF optimal_assignment[k][2] = c - 1
                    THEN At(lengths, optimal_assignment[k][1]) ELSE 0])]
    IN  IF best.found
        THEN Success(optimal_assignment, heights, best.max_height)
        ELSE Failure

sleper_find_optimal_assignment(paired, remaining, lengths, max_length, num_columns) ==
    LET pairs == assign_paired_containers(paired, lengths, num_columns)
        rest == assign_remaining_containers(remaining, lengths,
                    pairs.column_heights, max_length, num_columns)
    IN  IF rest.ok
        THEN Success(pairs.assignments \o rest.assignments, rest.column_heights,
                     MaxSeq(rest.column_heights))
        ELSE sleper_permutation_fallback(lengths, max_length, num_columns)

-----------------------------------------------------------------------------
(* kip.py: the 4-column solver *)

\* Faulty variant of first_fit: the last combination on which both items fit
\* is taken instead of the first.
RECURSIVE first_fit_last(_, _, _, _, _, _)
first_fit_last(combos, j, len1, len2, heights, cols) ==
    IF j > Len(combos) THEN [found |-> FALSE, col1 |-> 0, col2 |-> 0]
    ELSE LET col1 == combos[j][1]
             col2 == combos[j][2]
             later == first_fit_last(combos, j + 1, len1, len2, heights, cols)
         IN  IF later.found THEN later
             ELSE IF /\ At(heights, col1) + len1 <= At(cols, col1).max_length
                     /\ At(heights, col2) + len2 <= At(cols, col2).max_length
             THEN [found |-> TRUE, col1 |-> col1, col2 |-> col2]
             ELSE later

\* the loop over itertools.combinations for one pair, combinations j.. in
\* order: the first one on which both items fit, or found = FALSE
RECURSIVE first_fit(_, _, _, _, _, _)
first_fit(combos, j, len1, len2, heights, cols) ==
    IF j > Len(combos) THEN [found |-> FALSE, col1 |-> 0, col2 |-> 0]
    ELSE LET col1 == combos[j][1]
             col2 == combos[j][2]
         IN  IF /\ At(heights, col1) + len1 <= At(cols, col1).max_length
                /\ At(heights, col2) + len2 <= At(cols, col2).max_length
             THEN [found |-> TRUE, col1 |-> col1, col2 |-> col2]
             ELSE first_fit(combos, j + 1, len1, len2, heights, cols)

\* for pair in paired_containers, pairs k.. in order, on the loads so far;
\* ok = FALSE is the return None, None, None of the first pair that fits nowhere
RECURSIVE kip_assign_pairs(_, _, _, _, _, _)
kip_assign_pairs(paired, k, lengths, cols, asg, heights) ==
    IF k > Len(paired)
    THEN [ok |-> TRUE, assignments |-> asg, column_heights |-> heights]
    ELSE LET pair == paired[k]
             len1 == At(lengths, pair[1])
             len2 == At(lengths, pair[2])
             fit == first_fit(combinations2(Len(cols)), 1, len1, len2, heights, cols)
         IN  IF fit.found
             THEN kip_assign_pairs(paired, k + 1, lengths, cols,
                      asg \o << << pair[1], fit.col1 >>, << pair[2], fit.col2 >> >>,
                      AddAt(AddAt(heights, fit.col1, len1), fit.col2, len2))
             ELSE [ok |-> FALSE, assignments |-> asg, column_heights |-> heights]

\* the inner loop over zip(remaining_containers, assignment), from position k
RECURSIVE kip_try_assignment(_, _, _, _, _, _)
kip_try_assignment(remaining, assignment, lengths, temp_heights, cols, k) ==
    IF k > Len(remaining)
    THEN [valid |-> TRUE, temp_heights |-> temp_heights]
    ELSE LET col == assignment[k]
             added == AddAt(temp_heights, col, At(lengths, remaining[k]))
         IN  IF At(added, col) > At(cols, col).max_length
             THEN [valid |-> FALSE, temp_heights |-> added]
             ELSE kip_try_assignment(remaining, assignment, lengths, added, cols, k + 1)

\* the loop over itertools.product, candidates lo..hi in order
RECURSIVE kip_search(_, _, _, _, _, _, _, _)
kip_search(candidates, lo, hi, best, remaining, lengths, heights, cols) ==
    IF lo > hi THEN best
    ELSE IF lo = hi
    THEN LET try == kip_try_assignment(remaining, candidates[lo], lengths,
                                       heights, cols, 1)
         IN  IF try.valid
             THEN Improve(best, MaxSeq(try.temp_heights), candidates[lo])
             ELSE best
    ELSE LET mid == (lo + hi) \div 2
             first_half == kip_search(candidates, lo, mid, best, remaining,
                                      lengths, heights, cols)
         IN  IF first_half.found \in BOOLEAN   \* the first half is done first
             THEN kip_search(candidates, mid + 1, hi, first_half, remaining,
                             lengths, heights, cols)
             ELSE best

\* kip.find_optimal_assignment from "Assign remaining containers" on
kip_assign_remaining(remaining, lengths, cols, asg, heights) ==
    LET candidates == product(Len(cols), Len(remaining))
        best == kip_search(candidates, 1, Len(candidates), NoOptimum,
                           remaining, lengths, heights, cols)
        applied == ApplyAssignment(remaining, best.assignment, lengths, heights)
    IN  IF best.found
        THEN Success(asg \o applied.assignments, applied.column_heights,
                     best.max_height)
        ELSE Failure

kip_find_optimal_assignment(paired, remaining, lengths, cols) ==
    LET heights == [c \in 1..Len(cols) |-> cols[c].current_length]
        pairs == kip_assign_pairs(paired, 1, lengths, cols, << >>, heights)
    IN  IF pairs.ok
        THEN kip_assign_remaining(remaining, lengths, cols, pairs.assignments,
                                  pairs.column_heights)
        ELSE Failure

-----------------------------------------------------------------------------
(* The solvers as state machines: pair_containers, then find_optimal_assignment *)
(* phase by phase.  pc = "sleper_return" / "kip_return" is the point where the  *)
(* call has returned (or raised) and result holds what the caller receives.     *)

Logged(event) == log' = Append(log, event)

SleperPairContainers ==
    /\ pc = "sleper_pair"
    /\ paired_containers' = pair_containers(container_lengths).paired
    /\ remaining_containers' = pair_containers(container_lengths).remaining
    /\ Logged("sleper.pair_containers")
    /\ pc' = "sleper_call"
    /\ UNCHANGED << pallets, container_lengths, sleper_max_length, columns, assignments,
                    column_heights, result, area_ok >>

\* entry of sleper.find_optimal_assignment: assignments = [], column_heights = [0] * n
SleperEnter ==
    /\ pc = "sleper_call"
    /\ assignments' = << >>
    /\ column_heights' = [c \in 1..SLEPER_NUM_COLUMNS |-> 0]
    /\ Logged("sleper.find_optimal_assignment")
    /\ pc' = "sleper_pairs"
    /\ UNCHANGED << pallets, container_lengths, sleper_max_length, columns,
                    paired_containers, remaining_containers, result, area_ok >>

\* if paired_containers: assign_paired_containers(...)
SleperAssignPaired ==
    /\ pc = "sleper_pairs"
    /\ LET pairs == assign_paired_containers(paired_containers, container_lengths,
                                             SLEPER_NUM_COLUMNS)
       IN  IF Len(paired_containers) > 0
           THEN /\ assignments' = assignments \o pairs.assignments
                /\ column_heights' = pairs.column_heights
           ELSE UNCHANGED << assignments, column_heights >>
    /\ pc' = "sleper_remaining"
    /\ UNCHANGED << pallets, container_lengths, sleper_max_length, columns,
                    paired_containers, remaining_containers, result, area_ok, log >>

\* if remaining_containers: assign_remaining_containers(...); then the return,
\* or the ValueError that starts the except branch
SleperAssignRemaining ==
    /\ pc = "sleper_remaining"
    /\ LET rest == assign_remaining_containers(remaining_containers,
                       container_lengths, column_heights, sleper_max_length,
                       SLEPER_NUM_COLUMNS)
       IN  IF rest.ok
           THEN /\ assignments' = assignments \o rest.assignments
                /\ column_heights' = rest.column_heights
                /\ result' = Success(assignments', column_heights',
                                     MaxSeq(column_heights'))
                /\ pc' = "sleper_return"
                /\ UNCHANGED log
           ELSE /\ Logged("sleper.permutations")
                /\ pc' = "sleper_permutations"
                /\ UNCHANGED << assignments, column_heights, result >>
    /\ UNCHANGED << pallets, container_lengths, sleper_max_length, columns,
                    paired_containers, remaining_containers, area_ok >>

\* except ValueError: all permutations of all containers
SleperPermutations ==
    /\ pc = "sleper_permutations"
    /\ result' = sleper_permutation_fallback(container_lengths, sleper_max_length,
                                             SLEPER_NUM_COLUMNS)
    /\ column_heights' = IF result'.ok THEN result'.column_heights ELSE column_heights
    /\ pc' = "sleper_return"
    /\ UNCHANGED << pallets, container_lengths, sleper_max_length, columns,
                    paired_containers, remaining_containers, assignments,
                    area_ok, log >>

KipPairContainers ==
    /\ pc = "kip_pair"
    /\ paired_containers' = pair_containers(container_lengths).paired
    /\ remaining_containers' = pair_containers(container_lengths).remaining
    /\ Logged("kip.pair_containers")
    /\ pc' = "kip_call"
    /\ UNCHANGED << pallets, container_lengths, sleper_max_length, columns, assignments,
                    column_heights, result, area_ok >>

\* entry of kip.find_optimal_assignment: column_heights = the current lengths
KipEnter ==
    /\ pc = "kip_call"
    /\ assignments' = << >>
    /\ column_heights' = [c \in 1..Len(columns) |-> columns[c].current_length]
    /\ Logged("kip.find_optimal_assignment")
    /\ pc' = "kip_pairs"
    /\ UNCHANGED << pallets, container_lengths, sleper_max_length, columns,
                    paired_containers, remaining_containers, result, area_ok >>

\* "Assign paired containers first": every pair first-fit, or return None
KipAssignPaired ==
    /\ pc = "kip_pairs"
    /\ LET pairs == kip_assign_pairs(paired_containers, 1, container_lengths,
                                     columns, assignments, column_heights)
       IN  IF pairs.ok
           THEN /\ assignments' = pairs.assignments
                /\ column_heights' = pairs.column_heights
                /\ pc' = "kip_remaining"
                /\ UNCHANGED result
           ELSE /\ assignments' = pairs.assignments
                /\ column_heights' = pairs.column_heights
                /\ result' = Failure
                /\ pc' = "kip_return"
    /\ UNCHANGED << pallets, container_lengths, sleper_max_length, columns,
                    paired_containers, remaining_containers, area_ok, log >>

\* "Assign remaining containers": the exhaustive search, then the return
KipAssignRemaining ==
    /\ pc = "kip_remaining"
    /\ result' = kip_assign_remaining(remaining_containers, container_lengths,
                                      columns, assignments, column_heights)
    /\ IF result'.ok
       THEN /\ assignments' = result'.assignments
            /\ column_heights' = result'.column_heights
       ELSE UNCHANGED << assignments, column_heights >>
    /\ pc' = "kip_return"
    /\ UNCHANGED << pallets, container_lengths, sleper_max_length, columns,
                    paired_containers, remaining_containers, area_ok, log >>

-----------------------------------------------------------------------------
(* The solvers called directly on bounded inputs *)

ItemLists == UNION { [1..n -> LengthValues] : n \in 0..MaxItems }

KipColumnLists ==
    { [c \in 1..Len(MAIN_CONTAINERS) |->
          [max_length |-> caps[c], current_length |-> base[c]]] :
      caps \in [1..Len(MAIN_CONTAINERS) -> KipCapValues], base \in KipBaselines }

NotCalled == [sleper |-> "unchecked", kip |-> "unchecked"]

Init ==
    /\ pallets = << >>
    /\ container_lengths \in ItemLists
    /\ \/ /\ pc = "sleper_pair"
          /\ sleper_max_length \in SleperCapValues
          /\ columns = << >>
       \/ /\ pc = "kip_pair"
          /\ sleper_max_length = 0
          /\ columns \in KipColumnLists
    /\ paired_containers = << >>
    /\ remaining_containers = << >>
    /\ assignments = << >>
    /\ column_heights = << >>
    /\ result = Failure
    /\ area_ok = NotCalled
    /\ log = << >>

Next ==
    \/ SleperPairContainers
    \/ SleperEnter
    \/ SleperAssignPaired
    \/ SleperAssignRemaining
    \/ SleperPermutations
    \/ KipPairContainers
    \/ KipEnter
    \/ KipAssignPaired
    \/ KipAssignRemaining

Spec == Init /\ [][Next]_vars

-----------------------------------------------------------------------------
(* main.py: execute_packing, statement by statement *)

\* container_lengths.extend([length] * count) over all pallets
RECURSIVE ExtendAll(_)
ExtendAll(ps) ==
    IF Len(ps) = 0 THEN << >>
    ELSE ExtendAll(SubSeq(ps, 1, Len(ps) - 1))
         \o [i \in 1..ps[Len(ps)].count |-> ps[Len(ps)].length]

\* the two checks in the loop over the pallets
PalletRejected(pallet) ==
    \/ pallet.length < MIN_LENGTH
    \/ pallet.length > MAX_LENGTH
    \/ pallet.count < 1

\* Faulty variant of ValidateInput: the number of pallets, not of containers,
\* is compared with MAX_CONTAINERS.
ValidateInput_counts_pallets ==
    /\ pc = "validate"
    /\ IF \E i \in 1..Len(pallets) : PalletRejected(pallets[i])
       THEN /\ Logged("error: invalid input")
            /\ pc' = "done"
            /\ UNCHANGED container_lengths
       ELSE IF Len(pallets) > MAX_CONTAINERS
       THEN /\ Logged("error: invalid input")
            /\ pc' = "done"
            /\ container_lengths' = ExtendAll(pallets)
       ELSE /\ Logged("success: input validation")
            /\ pc' = "sleper_check"
            /\ container_lengths' = ExtendAll(pallets)
    /\ UNCHANGED << pallets, sleper_max_length, columns, paired_containers,
                    remaining_containers, assignments, column_heights, result,
                    area_ok >>

\* the input validation: a ValueError caught by the outer handler
\* (st.error "Invalid Input"), or "Input validation successful."
ValidateInput ==
    /\ pc = "validate"
    /\ IF \E i \in 1..Len(pallets) : PalletRejected(pallets[i])
       THEN /\ Logged("error: invalid input")
            /\ pc' = "done"
            /\ UNCHANGED container_lengths
       ELSE IF Len(ExtendAll(pallets)) > MAX_CONTAINERS
       THEN /\ Logged("error: invalid input")
            /\ pc' = "done"
            /\ container_lengths' = ExtendAll(pallets)
       ELSE /\ Logged("success: input validation")
            /\ pc' = "sleper_check"
            /\ container_lengths' = ExtendAll(pallets)
    /\ UNCHANGED << pallets, sleper_max_length, columns, paired_containers,
                    remaining_containers, assignments, column_heights, result,
                    area_ok >>

\* Faulty variant of SleperCheckTotalArea: the check is only advisory, the
\* solver is tried whatever it returned.
SleperCheckTotalArea_advisory ==
    /\ pc = "sleper_check"
    /\ LET ok == sleper_check_total_area(container_lengths, CONTAINER_WIDTH,
                                         MAIN_LENGTH, MAIN_WIDTH)
       IN  IF ok
           THEN /\ area_ok' = [area_ok EXCEPT !.sleper = "true"]
                /\ Logged("sleper.check_total_area")
           ELSE /\ area_ok' = [area_ok EXCEPT !.sleper = "false"]
                /\ log' = log \o << "sleper.check_total_area",
                                    "warning: sleper area check failed" >>
    /\ pc' = "sleper_pair"
    /\ UNCHANGED << pallets, container_lengths, sleper_max_length, columns,
                    paired_containers, remaining_containers, assignments,
                    column_heights, result >>

\* if sleper_check_total_area(...): ... else: st.warning(...)
SleperCheckTotalArea ==
    /\ pc = "sleper_check"
    /\ LET ok == sleper_check_total_area(container_lengths, CONTAINER_WIDTH,
                                         MAIN_LENGTH, MAIN_WIDTH)
       IN  IF ok
           THEN /\ area_ok' = [area_ok EXCEPT !.sleper = "true"]
                /\ Logged("sleper.check_total_area")
                /\ pc' = "sleper_pair"
           ELSE /\ area_ok' = [area_ok EXCEPT !.sleper = "false"]
                /\ log' = log \o << "sleper.check_total_area",
                                    "warning: sleper area check failed" >>
                /\ pc' = "kip_check"
    /\ UNCHANGED << pallets, container_lengths, sleper_max_length, columns,
                    paired_containers, remaining_containers, assignments,
                    column_heights, result >>

\* Faulty variant of SleperReturn: after a sleper success the second attempt
\* is made all the same.
SleperReturn_falls_through ==
    /\ pc = "sleper_return"
    /\ IF result.ok
       THEN Logged("success: sleper")
       ELSE Logged("warning: sleper logic failed")
    /\ pc' = "kip_check"
    /\ UNCHANGED << pallets, container_lengths, sleper_max_length, columns,
                    paired_containers, remaining_containers, assignments,
                    column_heights, result, area_ok >>

\* the try around sleper_find_optimal_assignment: success and return, or
\* except ValueError: st.warning(...) and on to the second attempt
SleperReturn ==
    /\ pc = "sleper_return"
    /\ IF result.ok
       THEN /\ Logged("success: sleper")
            /\ pc' = "done"
       ELSE /\ Logged("warning: sleper logic failed")
            /\ pc' = "kip_check"
    /\ UNCHANGED << pallets, container_lengths, sleper_max_length, columns,
                    paired_containers, remaining_containers, assignments,
                    column_heights, result, area_ok >>

\* if kip_check_total_area(...): ... else: st.error(...)
KipCheckTotalArea ==
    /\ pc = "kip_check"
    /\ LET ok == kip_check_total_area(container_lengths, CONTAINER_WIDTH,
                                      MAIN_CONTAINERS)
       IN  IF ok
           THEN /\ area_ok' = [area_ok EXCEPT !.kip = "true"]
                /\ Logged("kip.check_total_area")
                /\ pc' = "kip_pair"
           ELSE /\ area_ok' = [area_ok EXCEPT !.kip = "false"]
                /\ log' = log \o << "kip.check_total_area",
                                    "error: kip area check failed" >>
                /\ pc' = "done"
    /\ UNCHANGED << pallets, container_lengths, sleper_max_length, columns,
                    paired_containers, remaining_containers, assignments,
                    column_heights, result >>

\* if optimal_assignment is not None: st.success(...) else: st.error(...)
KipReturn ==
    /\ pc = "kip_return"
    /\ IF result.ok
       THEN Logged("success: kip")
       ELSE Logged("error: no valid assignment with kip")
    /\ pc' = "done"
    /\ UNCHANGED << pallets, container_lengths, sleper_max_length, columns,
                    paired_containers, remaining_containers, assignments,
                    column_heights, result, area_ok >>

PalletLists ==
    UNION { [1..n -> [length : PalletLengths, count : PalletCounts]] :
            n \in 1..MaxPallets }

\* execute_packing starts on the pallets of the session; the solvers get
\* MAIN_LENGTH and MAIN_CONTAINERS
InitMain ==
    /\ pallets \in PalletLists
    /\ container_lengths = << >>
    /\ sleper_max_length = MAIN_LENGTH
    /\ columns = MAIN_CONTAINERS
    /\ paired_containers = << >>
    /\ remaining_containers = << >>
    /\ assignments = << >>
    /\ column_heights = << >>
    /\ result = Failure
    /\ area_ok = NotCalled
    /\ log = << >>
    /\ pc = "validate"

NextMain ==
    \/ ValidateInput
    \/ SleperCheckTotalArea
    \/ SleperPairContainers
    \/ SleperEnter
    \/ SleperAssignPaired
    \/ SleperAssignRemaining
    \/ SleperPermutations
    \/ SleperReturn
    \/ KipCheckTotalArea
    \/ KipPairContainers
    \/ KipEnter
    \/ KipAssignPaired
    \/ KipAssignRemaining
    \/ KipReturn

SpecMain == InitMain /\ [][NextMain]_vars

-----------------------------------------------------------------------------
(* Vocabulary of the properties *)

SleperPcs == {"sleper_pair", "sleper_call", "sleper_pairs", "sleper_remaining",
              "sleper_permutations", "sleper_return"}

\* the solver has handed its result back to its caller
Returned == pc \in {"sleper_return", "kip_return"}

Solved == Returned /\ result.ok

\* the column configuration of the solver that is running
NumColumns == IF pc \in SleperPcs THEN SLEPER_NUM_COLUMNS ELSE Len(columns)
ColumnIds == 0..(NumColumns - 1)
Capacity(c) == IF pc \in SleperPcs THEN sleper_max_length ELSE At(columns, c).max_length
Baseline(c) == IF pc \in SleperPcs THEN 0 ELSE At(columns, c).current_length

ItemIds == 0..(Len(container_lengths) - 1)

\* an assignment of every item to a column, as a function item -> column
AllAssignments == [ItemIds -> ColumnIds]

LoadOf(f, items, c) ==
    Baseline(c)
    + SumSeq([k \in 1..Len(container_lengths) |->
                IF (k - 1) \in items /\ f[k - 1] = c THEN container_lengths[k] ELSE 0])

MaxLoadOf(f, items) ==
    CHOOSE m \in { LoadOf(f, items, c) : c \in ColumnIds } :
        \A c \in ColumnIds : LoadOf(f, items, c) <= m

WithinCapacity(f, items) == \A c \in ColumnIds : LoadOf(f, items, c) <= Capacity(c)

FeasibleAssignments == { f \in AllAssignments : WithinCapacity(f, ItemIds) }

-----------------------------------------------------------------------------
(* Properties of the solvers called directly (specification Spec) *)

\* C1: whenever a solver succeeds, every returned column load is at most that
\* column's capacity.
C1_LoadsWithinCapacity ==
    Solved => \A c \in ColumnIds : At(result.column_heights, c) <= Capacity(c)

\* C2: whenever a solver succeeds, the returned maximum column load is the
\* minimum of the maximum load over all assignments of all items that keep
\* every column within its capacity: no such assignment has a lower maximum.
\* (That the returned loads are themselves within capacity is C1.)
C2_MakespanOptimal ==
    Solved =>
        \A f \in FeasibleAssignments :
            result.optimal_max_height <= MaxLoadOf(f, ItemIds)

\* C2 as amended: the same, for the inputs on which pair_containers found no
\* pair (all item lengths distinct), so that every item goes through the
\* exhaustive search.
C2_OptimalWithoutPairs ==
    (Solved /\ paired_containers = << >>) =>
        /\ \E f \in FeasibleAssignments :
               MaxLoadOf(f, ItemIds) = result.optimal_max_height
        /\ \A f \in FeasibleAssignments :
               result.optimal_max_height <= MaxLoadOf(f, ItemIds)

\* three items of distinct lengths were spread over the columns
C2_Witness ==
    /\ Solved
    /\ paired_containers = << >>
    /\ Len(container_lengths) = 3
    /\ result.optimal_max_height < SumSeq(container_lengths)

\* C3: whenever a solver succeeds, the returned assignment list holds every
\* item index exactly once and only valid column indices.
C3_AssignmentTotal ==
    Solved =>
        /\ \A i \in ItemIds :
               Cardinality({ k \in 1..Len(result.assignments) :
                               result.assignments[k][1] = i }) = 1
        /\ \A k \in 1..Len(result.assignments) :
               /\ result.assignments[k][1] \in ItemIds
               /\ result.assignments[k][2] \in ColumnIds

\* the 2-column solver succeeded through the permutation fallback on a list
\* that has a pair and a single
C3_Witness ==
    /\ pc = "sleper_return"
    /\ result.ok
    /\ \E k \in 1..Len(log) : log[k] = "sleper.permutations"
    /\ paired_containers # << >>
    /\ remaining_containers # << >>

\* the item indices of the pairs and of the singles, as one list
PairedIndices ==
    Concat([k \in 1..Len(paired_containers) |->
                << paired_containers[k][1], paired_containers[k][2] >>])

\* C4: pair_containers puts every index in exactly one place (a component of
\* one pair, or the singles), pairs only items of equal length, and leaves a
\* single of a length exactly when the number of items of that length is odd
\* (and then exactly one).
C4_PairingPartition ==
    (pc \notin {"validate", "sleper_check", "sleper_pair", "kip_pair"}) =>
        LET placed == PairedIndices \o remaining_containers
        IN  /\ \A i \in ItemIds :
                   Cardinality({ k \in 1..Len(placed) : placed[k] = i }) = 1
            /\ \A k \in 1..Len(placed) : placed[k] \in ItemIds
            /\ \A k \in 1..Len(paired_containers) :
                   At(container_lengths, paired_containers[k][1])
                       = At(container_lengths, paired_containers[k][2])
            /\ \A i \in ItemIds :
                   LET len == At(container_lengths, i)
                       same == { j \in ItemIds : At(container_lengths, j) = len }
                       single == { k \in 1..Len(remaining_containers) :
                                     At(container_lengths, remaining_containers[k]) = len }
                   IN  Cardinality(single) = Cardinality(same) % 2

\* a list with three items of one length and one of another was paired
C4_Witness ==
    /\ pc = "sleper_call"
    /\ Len(paired_containers) = 1
    /\ Len(remaining_containers) = 2

\* how far a capacity is raised when monotonicity is tried
MaxRaise == 2

RaisedColumns(c, d) ==
    [k \in 1..Len(columns) |->
        [max_length |-> columns[k].max_length + (IF k = c + 1 THEN d ELSE 0),
         current_length |-> columns[k].current_length]]

\* C5: when a solver succeeds, it also succeeds on the same items with the
\* capacity of any one column raised.
C5_CapacityMonotone ==
    Solved =>
        \A d \in 1..MaxRaise :
            IF pc = "sleper_return"
            THEN sleper_find_optimal_assignment(paired_containers,
                     remaining_containers, container_lengths,
                     sleper_max_length + d, SLEPER_NUM_COLUMNS).ok
            ELSE \A c \in ColumnIds :
                     kip_find_optimal_assignment(paired_containers,
                         remaining_containers, container_lengths,
                         RaisedColumns(c, d)).ok

\* C6: when some item is longer than the capacity of every column, the solver
\* reports failure.
C6_OversizeItemFails ==
    (Returned /\ \E i \in ItemIds :
                    \A c \in ColumnIds : At(container_lengths, i) > Capacity(c))
        => ~result.ok

\* C9: whenever a solver succeeds, the returned load of every column is the
\* column's baseline plus the lengths of exactly the items the returned
\* assignment maps to it, and the returned maximum height is the maximum of
\* the returned loads.
C9_LoadsMatchAssignment ==
    Solved =>
        /\ Len(result.column_heights) = NumColumns
        /\ \A c \in ColumnIds :
               At(result.column_heights, c)
                   = Baseline(c)
                     + SumSeq([k \in 1..Len(result.assignments) |->
                                 IF result.assignments[k][2] = c
                                 THEN At(container_lengths, result.assignments[k][1])
                                 ELSE 0])
        /\ \E c \in ColumnIds :
               result.optimal_max_height = At(result.column_heights, c)
        /\ \A c \in ColumnIds :
               At(result.column_heights, c) <= result.optimal_max_height

\* the 4-column solver put a single on a column that had a baseline
C9_Witness ==
    /\ pc = "kip_return"
    /\ result.ok
    /\ remaining_containers # << >>
    /\ At(columns, 3).current_length = 1
    /\ \E k \in 1..Len(result.assignments) :
           /\ result.assignments[k][1] = remaining_containers[1]
           /\ result.assignments[k][2] = 3

\* Phase 2 is about to run: the 4-column solver after its pairs, the 2-column
\* solver when there are singles
Phase2Starts ==
    \/ pc = "kip_remaining"
    \/ pc = "sleper_remaining" /\ remaining_containers # << >>

\* a mapping of the singles to columns, by position in remaining_containers
Mappings == [1..Len(remaining_containers) -> ColumnIds]

MappingLoad(m, c) ==
    At(column_heights, c)
    + SumSeq([k \in 1..Len(remaining_containers) |->
                IF m[k] = c THEN At(container_lengths, remaining_containers[k]) ELSE 0])

ValidMappings ==
    { m \in Mappings : \A c \in ColumnIds : MappingLoad(m, c) <= Capacity(c) }

MappingMax(m) ==
    CHOOSE h \in { MappingLoad(m, c) : c \in ColumnIds } :
        \A c \in ColumnIds : MappingLoad(m, c) <= h

\* m1 comes before m2 in Cartesian-product order (first single slowest)
ProductBefore(m1, m2) ==
    \E k \in 1..Len(remaining_containers) :
        /\ \A j \in 1..(k - 1) : m1[j] = m2[j]
        /\ m1[k] < m2[k]

\* C10: Phase 2 fails iff no mapping of the singles keeps every column within
\* capacity; otherwise it applies the valid mapping with the least maximum
\* column load, the first in Cartesian-product order among those.
C10_Phase2Optimal ==
    [][ Phase2Starts =>
          IF ValidMappings = {}
          THEN \/ pc = "kip_remaining" /\ pc' = "kip_return" /\ ~result'.ok
               \/ pc = "sleper_remaining" /\ pc' = "sleper_permutations"
          ELSE \E m \in ValidMappings :
                 /\ \A m2 \in ValidMappings :
                        /\ MappingMax(m) <= MappingMax(m2)
                        /\ (MappingMax(m2) = MappingMax(m) /\ m2 # m)
                               => ProductBefore(m, m2)
                 /\ result'.ok
                 /\ assignments' = assignments
                        \o [k \in 1..Len(remaining_containers) |->
                               << remaining_containers[k], m[k] >>]
                 /\ column_heights' = [c \in 1..NumColumns |-> MappingLoad(m, c - 1)]
                 /\ result'.column_heights = column_heights'
                 /\ result'.optimal_max_height = MappingMax(m)
      ]_vars

\* the example of the claim, in units of 1000: items [2, 2, 2] on two columns
\* of capacity 7 end with loads [4, 2] and maximum 4
C10_Witness ==
    /\ pc = "sleper_return"
    /\ container_lengths = << 2, 2, 2 >>
    /\ sleper_max_length = 7
    /\ result.ok
    /\ result.column_heights = << 4, 2 >>
    /\ result.optimal_max_height = 4

-----------------------------------------------------------------------------
(* Phase 1 of the 4-column solver (specification Spec) *)

\* the load of column c before pair k is placed, when the pairs before it
\* were placed as the list asg says (two entries per pair)
PairLoad(asg, k, c) ==
    Baseline(c)
    + SumSeq([j \in 1..(2 * (k - 1)) |->
                IF asg[j][2] = c THEN At(container_lengths, asg[j][1]) ELSE 0])

\* both items of pair k stay within capacity on columns c1 and c2
PairFits(asg, k, c1, c2) ==
    /\ PairLoad(asg, k, c1) + At(container_lengths, paired_containers[k][1])
           <= Capacity(c1)
    /\ PairLoad(asg, k, c2) + At(container_lengths, paired_containers[k][2])
           <= Capacity(c2)

\* (c1, c2) is the first combination, in ascending combination order, on
\* which pair k fits
FirstFitting(asg, k, c1, c2) ==
    /\ c1 \in ColumnIds
    /\ c2 \in ColumnIds
    /\ c1 < c2
    /\ PairFits(asg, k, c1, c2)
    /\ \A d1, d2 \in ColumnIds :
           (d1 < d2 /\ (d1 < c1 \/ (d1 = c1 /\ d2 < c2)))
               => ~PairFits(asg, k, d1, d2)

\* C11: Phase 1 of the 4-column solver takes the pairs in list order and puts
\* pair (a, b) with a on col1 and b on col2, (col1, col2) with col1 < col2
\* being the first combination in ascending order on which both stay within
\* capacity on top of the earlier pairs; the two items never share a column;
\* at the first pair that fits on no combination the solver returns failure,
\* with no single placed and the earlier pairs left where first-fit put them.
C11_Phase1FirstFit ==
    [][ pc = "kip_pairs" =>
          LET n == Len(assignments') \div 2
          IN  /\ Len(assignments') = 2 * n
              /\ n <= Len(paired_containers)
              /\ \A k \in 1..n :
                     /\ assignments'[2 * k - 1][1] = paired_containers[k][1]
                     /\ assignments'[2 * k][1] = paired_containers[k][2]
                     /\ assignments'[2 * k - 1][2] # assignments'[2 * k][2]
                     /\ FirstFitting(assignments', k, assignments'[2 * k - 1][2],
                                     assignments'[2 * k][2])
              /\ column_heights'
                     = [c \in 1..NumColumns |-> PairLoad(assignments', n + 1, c - 1)]
              /\ IF n = Len(paired_containers)
                 THEN pc' = "kip_remaining" /\ result' = result
                 ELSE /\ \A d1, d2 \in ColumnIds :
                             d1 < d2 => ~PairFits(assignments', n + 1, d1, d2)
                      /\ pc' = "kip_return"
                      /\ ~result'.ok
                      /\ result'.assignments = << >>
      ]_vars

\* the second pair fitted nowhere after first-fit had placed the first one,
\* although the items do have an assignment within the capacities
C11_Witness ==
    /\ pc = "kip_return"
    /\ ~result.ok
    /\ Len(paired_containers) = 2
    /\ Len(assignments) = 2
    /\ FeasibleAssignments # {}

-----------------------------------------------------------------------------
(* The permutation fallback of the 2-column solver (specification Spec) *)

KipPcs == {"kip_pair", "kip_call", "kip_pairs", "kip_remaining", "kip_return"}

\* how often the permutation search was started
PermutationRuns(events) ==
    Cardinality({ k \in 1..Len(events) : events[k] = "sleper.permutations" })

\* the permutations of all item indices, as functions position -> item
ItemPermutations ==
    { p \in [1..Len(container_lengths) -> ItemIds] :
          \A j, k \in 1..Len(container_lengths) : j # k => p[j] # p[k] }

\* the load of column c before the item at position k of p is placed, when
\* the items before it went where g says
PermLoad(p, g, k, c) ==
    SumSeq([j \in 1..(k - 1) |->
              IF g[j] = c THEN At(container_lengths, p[j]) ELSE 0])

\* g sends every item of p to the column that is lowest loaded when its turn
\* comes, the lowest index on ties
GreedyColumns(p) ==
    CHOOSE g \in [1..Len(container_lengths) -> ColumnIds] :
        \A k \in 1..Len(container_lengths) :
            \A d \in ColumnIds :
                /\ PermLoad(p, g, k, g[k]) <= PermLoad(p, g, k, d)
                /\ d < g[k] => PermLoad(p, g, k, d) > PermLoad(p, g, k, g[k])

\* no placement of p takes its column above max_length
PermFeasible(p) ==
    LET g == GreedyColumns(p)
    IN  \A k \in 1..Len(container_lengths) :
            PermLoad(p, g, k + 1, g[k]) <= sleper_max_length

PermFinalLoad(p, c) ==
    PermLoad(p, GreedyColumns(p), Len(container_lengths) + 1, c)

PermMax(p) ==
    CHOOSE h \in { PermFinalLoad(p, c) : c \in ColumnIds } :
        \A c \in ColumnIds : PermFinalLoad(p, c) <= h

\* p1 is enumerated before p2: lexicographic order of the index tuples
EnumeratedBefore(p1, p2) ==
    \E k \in 1..Len(container_lengths) :
        /\ \A j \in 1..(k - 1) : p1[j] = p2[j]
        /\ p1[k] < p2[k]

\* C12: the fallback of the 2-column solver starts only when the pair-first
\* approach failed; it places the items of every permutation of all indices
\* in order on the currently lowest column (lowest index on ties), drops a
\* permutation when a placement exceeds max_length, and returns the
\* assignment of the feasible permutation with the least maximum load, the
\* first enumerated among those; it fails iff no permutation is feasible.
\* The 4-column solver never runs a permutation search.
C12_PermutationFallback ==
    [][ /\ pc = "sleper_permutations" =>
              LET feasible == { p \in ItemPermutations : PermFeasible(p) }
                  n == Len(container_lengths)
              IN  /\ pc' = "sleper_return"
                  /\ IF feasible = {}
                     THEN ~result'.ok
                     ELSE \E p \in feasible :
                            /\ \A p2 \in feasible :
                                   /\ PermMax(p) <= PermMax(p2)
                                   /\ (PermMax(p2) = PermMax(p) /\ p2 # p)
                                          => EnumeratedBefore(p, p2)
                            /\ result'.ok
                            /\ result'.assignments
                                  = [k \in 1..n |-> << p[k], GreedyColumns(p)[k] >>]
                            /\ result'.column_heights
                                  = [c \in 1..NumColumns |-> PermFinalLoad(p, c - 1)]
                            /\ result'.optimal_max_height = PermMax(p)
        /\ (pc' = "sleper_permutations" /\ pc # "sleper_permutations") =>
              /\ pc = "sleper_remaining"
              /\ remaining_containers # << >>
              /\ ValidMappings = {}
              /\ PermutationRuns(log') = PermutationRuns(log) + 1
        /\ pc \in KipPcs =>
              /\ pc' # "sleper_permutations"
              /\ PermutationRuns(log') = PermutationRuns(log)
      ]_vars

\* the fallback returned an assignment for which several permutations tie,
\* after the pair-first approach had failed on a pair and two singles
C12_Witness ==
    /\ pc = "sleper_return"
    /\ PermutationRuns(log) = 1
    /\ result.ok
    /\ Len(paired_containers) = 1
    /\ Len(remaining_containers) = 2
    /\ Cardinality({ p \in ItemPermutations :
                       PermFeasible(p) /\ PermMax(p) = result.optimal_max_height }) > 1

-----------------------------------------------------------------------------
(* Completeness of the 2-column solver (specification Spec) *)

\* C14: the 2-column solver signals failure only when no assignment of all
\* items to the two columns keeps both loads within max_length: whenever such
\* an assignment exists, pair-first or the permutation fallback succeeds.
C14_SleperComplete ==
    (pc = "sleper_return" /\ FeasibleAssignments # {}) => result.ok

\* the solver failed, through pair-first and the fallback, on three or more
\* items each of which fits a column by itself
C14_Witness ==
    /\ pc = "sleper_return"
    /\ ~result.ok
    /\ PermutationRuns(log) = 1
    /\ Len(container_lengths) >= 3
    /\ \A i \in ItemIds : At(container_lengths, i) <= sleper_max_length
    /\ FeasibleAssignments = {}

-----------------------------------------------------------------------------
(* Properties of execute_packing (specification SpecMain) *)

Called(event) == \E k \in 1..Len(log) : log[k] = event

TotalLength == SumSeq(container_lengths)

\* C7: a configuration's solver is invoked only after that configuration's
\* check_total_area returned true on the same item lengths, and never when it
\* returned false.
C7_SolverOnlyAfterAreaCheck ==
    /\ \A k \in 1..Len(log) :
           log[k] \in {"sleper.pair_containers", "sleper.find_optimal_assignment"}
               => /\ \E j \in 1..(k - 1) : log[j] = "sleper.check_total_area"
                  /\ area_ok.sleper = "true"
                  /\ TotalLength * CONTAINER_WIDTH <= MAIN_LENGTH * MAIN_WIDTH
    /\ \A k \in 1..Len(log) :
           log[k] \in {"kip.pair_containers", "kip.find_optimal_assignment"}
               => /\ \E j \in 1..(k - 1) : log[j] = "kip.check_total_area"
                  /\ area_ok.kip = "true"
                  /\ TotalLength * CONTAINER_WIDTH
                        <= SumSeq([c \in 1..Len(MAIN_CONTAINERS) |->
                                     MAIN_CONTAINERS[c].max_length * CONTAINER_WIDTH])
    /\ pc \in SleperPcs => area_ok.sleper = "true"
    /\ pc \in {"kip_pair", "kip_call", "kip_pairs", "kip_remaining", "kip_return"}
           => area_ok.kip = "true"

\* a run in which the sleper check was false and the kip solver ran
C7_Witness ==
    /\ pc = "done"
    /\ area_ok.sleper = "false"
    /\ area_ok.kip = "true"
    /\ Called("kip.find_optimal_assignment")
    /\ ~Called("sleper.find_optimal_assignment")

ItemCount == SumSeq([i \in 1..Len(pallets) |-> pallets[i].count])

InvalidInput ==
    \/ \E i \in 1..Len(pallets) :
           \/ pallets[i].length < MIN_LENGTH
           \/ pallets[i].length > MAX_LENGTH
           \/ pallets[i].count < 1
    \/ ItemCount > MAX_CONTAINERS

\* C8: on a pallet length outside [MIN_LENGTH, MAX_LENGTH], a count below 1
\* or more than MAX_CONTAINERS items in total, execute_packing reports the
\* input error and does nothing else: no area check, no pairing, no solver,
\* no permutation fallback.
C8_InvalidInputRejected ==
    InvalidInput =>
        /\ pc \in {"validate", "done"}
        /\ area_ok = NotCalled
        /\ pc = "validate" => log = << >>
        /\ pc = "done" => log = << "error: invalid input" >>

\* eleven items, every pallet valid by itself, were rejected
C8_Witness ==
    /\ pc = "done"
    /\ \A i \in 1..Len(pallets) :
           /\ pallets[i].length \in MIN_LENGTH..MAX_LENGTH
           /\ pallets[i].count >= 1
    /\ ItemCount = MAX_CONTAINERS + 1
    /\ log = << "error: invalid input" >>

-----------------------------------------------------------------------------
(* The order of the two attempts in execute_packing (specification SpecMain) *)

SleperEvents == {"sleper.check_total_area", "sleper.pair_containers",
                 "sleper.find_optimal_assignment", "sleper.permutations"}

KipEvents == {"kip.check_total_area", "kip.pair_containers",
              "kip.find_optimal_assignment"}

SleperRejections == {"warning: sleper area check failed",
                     "warning: sleper logic failed"}

FailureReports == {"error: kip area check failed",
                   "error: no valid assignment with kip"}

\* the positions of the log that hold one of the events
Positions(events) == { k \in 1..Len(log) : log[k] \in events }

\* C13: on validated input the sleper configuration is attempted first; the
\* kip configuration is attempted exactly when the sleper attempt was rejected
\* (area check false, or the solver raised failure), never once sleper
\* succeeded; and failure is reported only after the kip attempt was rejected
\* too (area check false, or the solver returned no assignment).
C13_CallerSequencing ==
    /\ (Called("success: input validation")
            /\ pc \notin {"validate", "sleper_check"})
          => /\ Len(log) >= 2
             /\ log[1] = "success: input validation"
             /\ log[2] = "sleper.check_total_area"
    /\ \A k \in Positions(KipEvents) :
           /\ \E j \in 1..(k - 1) : log[j] = "sleper.check_total_area"
           /\ \E j \in 1..(k - 1) : log[j] \in SleperRejections
           /\ \A j \in Positions(SleperEvents) : j < k
    /\ \A k \in Positions({"warning: sleper area check failed"}) :
           /\ area_ok.sleper = "false"
           /\ k > 1
           /\ log[k - 1] = "sleper.check_total_area"
    /\ \A k \in Positions({"warning: sleper logic failed"}) :
           /\ area_ok.sleper = "true"
           /\ Called("sleper.find_optimal_assignment")
           /\ pc \in {"kip_check", "done"} \union KipPcs
           /\ (area_ok.kip = "unchecked") => ~result.ok
    /\ (Positions(SleperRejections) # {} /\ pc = "done")
          => Called("kip.check_total_area")
    /\ (pc \in {"kip_check"} \union KipPcs)
          => Cardinality(Positions(SleperRejections)) = 1
    /\ Called("success: sleper")
          => /\ pc = "done"
             /\ log[Len(log)] = "success: sleper"
             /\ result.ok
             /\ Positions(KipEvents) = {}
             /\ Positions(SleperRejections) = {}
             /\ area_ok.kip = "unchecked"
    /\ \A k \in Positions(FailureReports) :
           /\ pc = "done"
           /\ k = Len(log)
           /\ \E j \in 1..(k - 1) : log[j] = "kip.check_total_area"
           /\ Positions(SleperRejections) # {}
           /\ log[k] = "error: kip area check failed"
                 => area_ok.kip = "false" /\ ~Called("kip.find_optimal_assignment")
           /\ log[k] = "error: no valid assignment with kip"
                 => /\ area_ok.kip = "true"
                    /\ Called("kip.find_optimal_assignment")
                    /\ ~result.ok
    /\ (pc = "done" /\ Called("success: input validation"))
          => \/ Called("success: sleper")
             \/ Called("success: kip")
             \/ Positions(FailureReports) # {}

\* the sleper solver raised failure, having passed its area check, and the
\* kip attempt that followed succeeded
C13_Witness ==
    /\ pc = "done"
    /\ Called("warning: sleper logic failed")
    /\ Called("sleper.permutations")
    /\ Called("success: kip")

-----------------------------------------------------------------------------
(* The loads of a sleper success in execute_packing (specification SpecMain) *)

\* C15: in execute_packing, where the 2-column solver runs only after
\* sleper.check_total_area returned true (total length <= 2 * MAIN_LENGTH),
\* every successful sleper result has both column loads <= MAIN_LENGTH,
\* although the pairs are placed without a capacity check.
C15_SleperLoadsWithinMainLength ==
    (pc = "sleper_return" /\ result.ok) =>
        /\ area_ok.sleper = "true"
        /\ TotalLength <= SLEPER_NUM_COLUMNS * MAIN_LENGTH
        /\ Len(result.column_heights) = SLEPER_NUM_COLUMNS
        /\ \A c \in 1..SLEPER_NUM_COLUMNS : result.column_heights[c] <= MAIN_LENGTH

\* the solver succeeded on pairs alone, placed without a check, with column
\* loads that a second pair of the same length would take over MAIN_LENGTH
C15_Witness ==
    /\ pc = "sleper_return"
    /\ result.ok
    /\ paired_containers # << >>
    /\ remaining_containers = << >>
    /\ \A c \in 1..SLEPER_NUM_COLUMNS : 2 * result.column_heights[c] > MAIN_LENGTH

====
